---- MODULE Spec2Model ----
(***************************************************************************)
(* EmbedSanitizer instrumentation pass (ThreadSanitizer::runOnFunction)    *)
(* as a state machine over one function of the compiler's IR.              *)
(*                                                                         *)
(* A function is a sequence of basic blocks; a basic block is a sequence   *)
(* of items, the last one its terminator.  Every item is one record type:  *)
(* the instructions read from the IR carry a unique id > 0, the calls the  *)
(* pass creates carry id 0 and name in "covers" the instruction they were  *)
(* created for.  The pass mutates F in place; orig keeps the function as   *)
(* it was read.                                                            *)
(***************************************************************************)
EXTENDS Integers, Sequences, FiniteSets, TLC

VARIABLES
    F,               \* the function being processed (mutated in place)
    orig,            \* the function as read from the IR (never changes)
    ndebug,          \* TRUE when the pass is built with assertions compiled out
    pc,              \* position inside runOnFunction
    bb,              \* index of the block the traversal is in
    ip,              \* id of the next instruction to visit in block bb, 0 at its end
    Local,           \* LocalLoadsAndStores
    All,             \* AllLoadsAndStores
    AtomicAccesses,  \* AtomicAccesses
    MemIntrinCalls,  \* MemIntrinCalls
    Res,             \* Res
    HasCalls,        \* HasCalls
    k                \* index of the range-for loop of the current lowering phase

vars == <<F, orig, ndebug, pc, bb, ip, Local, All, AtomicAccesses,
          MemIntrinCalls, Res, HasCalls, k>>

\* The state of the runtime of src/etsan/race_report.h.
VARIABLES
    callStack,       \* callStack: thread id -> vector of function names
    races,           \* races: the set of race records
    stackFrameLock,  \* holder of stackFrameLock, 0 when free
    racePrintLock,   \* holder of racePrintLock, 0 when free
    th               \* per thread: where it is inside a runtime function, its locals

rtvars == <<callStack, races, stackFrameLock, racePrintLock, th>>

(***************************************************************************)
(* Bounds of the model.                                                    *)
(***************************************************************************)
MaxInsts == 3      \* instructions of a function of the segment family
MaxExitBody == 1   \* instructions of a function of the exit family
MaxVal == 1        \* compare-exchange operand values are 0..MaxVal
MaxDepth == 1      \* frames a thread pushes on its call stack
MaxRaces == 1      \* race records the runtime collects

(***************************************************************************)
(* Command-line options, at their defaults.                                *)
(***************************************************************************)
ClInstrumentMemoryAccesses == TRUE
ClInstrumentFuncEntryExit == TRUE
ClHandleCxxExceptions == TRUE
ClInstrumentAtomics == TRUE
ClInstrumentMemIntrinsics == TRUE

kNumberOfAccessSizes == 5

(***************************************************************************)
(* Items.                                                                  *)
(***************************************************************************)
NoAddr == [base |-> "none", v |-> 0]

\* An address operand: the base object it resolves to and which operand
\* value it is (two operands with the same base alias without being the
\* same Value).
AddrOp(base, v) == [base |-> base, v |-> v]

Arg(kind, n) == [k |-> kind, n |-> n]
\* An integer operand of the given width; n is its low 32-bit word and hi
\* the word above it (0 for widths up to 32).
IntArg(kind, bits, hi, lo) == [k |-> kind, n |-> lo, hi |-> hi, bits |-> bits]

Blank ==
    [id |-> 0, kind |-> "other", addr |-> NoAddr, size |-> 0, align |-> 0,
     line |-> 0, vtable |-> FALSE, atomic |-> FALSE, scope |-> "cross",
     ord |-> "notatomic", ford |-> "notatomic", op |-> "none",
     val |-> 0, cmp |-> 0, isptr |-> FALSE, nothrow |-> TRUE,
     fn |-> "", args |-> <<>>, covers |-> 0, unwind |-> ""]

Term(kind) == [Blank EXCEPT !.kind = kind]
Load(a) == [Blank EXCEPT !.kind = "load", !.addr = a, !.size = 4, !.line = 7]
Store(a) == [Blank EXCEPT !.kind = "store", !.addr = a, !.size = 4, !.line = 7]
Call(nothrow) == [Blank EXCEPT !.kind = "call", !.nothrow = nothrow]
\* A bulk-memory intrinsic: destination, value or source, length,
\* alignment, volatile flag.
\* llvm.memset / llvm.memcpy / llvm.memmove: destination, byte value or
\* source, length (an i32 or an i64), alignment, volatile flag.
MemIntr(kind, lenbits, hi) ==
    [Blank EXCEPT !.kind = kind, !.nothrow = TRUE,
                  !.args = <<Arg("dst", 1),
                             IF kind = "memset" THEN IntArg("val", 8, 0, 2) ELSE Arg("src", 2),
                             IntArg("len", lenbits, hi, 3),
                             Arg("align", 4), Arg("volatile", 0)>>]
RMW(a, op, ord, size) ==
    [Blank EXCEPT !.kind = "rmw", !.addr = a, !.op = op, !.ord = ord,
                  !.size = size, !.atomic = TRUE]
Fence(scope, ord) ==
    [Blank EXCEPT !.kind = "fence", !.scope = scope, !.ord = ord, !.atomic = TRUE]
AtomicLS(kind, a, scope, ord, size) ==
    [Blank EXCEPT !.kind = kind, !.addr = a, !.scope = scope, !.ord = ord,
                  !.size = size, !.atomic = TRUE]
CAS(a, size, isptr, cmp, val, so, fo) ==
    [Blank EXCEPT !.kind = "cas", !.addr = a, !.size = size, !.isptr = isptr,
                  !.cmp = cmp, !.val = val, !.ord = so, !.ford = fo,
                  !.atomic = TRUE]

\* A call created by the pass.
RtCall(fn, args, covers, nothrow) ==
    [Blank EXCEPT !.kind = "rtcall", !.fn = fn, !.args = args,
                  !.covers = covers, !.nothrow = nothrow]

TermKinds == {"ret", "br", "resume", "invoke", "unreachable"}
MemIntrKinds == {"memset", "memcpy", "memmove"}

(***************************************************************************)
(* Navigation in a function.                                               *)
(***************************************************************************)
Blocks(fn) == 1..Len(fn.blocks)
Positions(fn, b) == 1..Len(fn.blocks[b])

BlockOf(fn, id) ==
    CHOOSE b \in Blocks(fn) : \E p \in Positions(fn, b) : fn.blocks[b][p].id = id
PosOf(fn, id) ==
    CHOOSE p \in Positions(fn, BlockOf(fn, id)) : fn.blocks[BlockOf(fn, id)][p].id = id
InstOf(fn, id) == fn.blocks[BlockOf(fn, id)][PosOf(fn, id)]

InsertAt(s, p, x) == SubSeq(s, 1, p - 1) \o <<x>> \o SubSeq(s, p, Len(s))
ReplaceAt(s, p, x) == [s EXCEPT ![p] = x]
RemoveAt(s, p) == SubSeq(s, 1, p - 1) \o SubSeq(s, p + 1, Len(s))

\* All items of the function, block after block.
RECURSIVE Flatten(_, _)
Flatten(bs, b) == IF b > Len(bs) THEN <<>> ELSE bs[b] \o Flatten(bs, b + 1)
Items(fn) == Flatten(fn.blocks, 1)

(***************************************************************************)
(* Address classification.                                                 *)
(***************************************************************************)
isVtableAccess(I) == I.vtable

\* FALSE for the profiling counters section, the private gcov data and
\* any address space but 0.
shouldInstrumentReadWriteFromAddress(Addr) ==
    IF Addr.base \in {"pgo", "gcov"} THEN FALSE
    ELSE IF Addr.base = "as1" THEN FALSE
    ELSE TRUE

\* TRUE for a constant global (seen through one GEP) and for an address
\* that is itself loaded from a vtable-tagged location.
addrPointsToConstantData(Addr) ==
    IF Addr.base = "const" THEN TRUE
    ELSE IF Addr.base = "vtload" THEN TRUE
    ELSE FALSE

\* isa<AllocaInst>(GetUnderlyingObject(Addr)) && !PointerMayBeCaptured(Addr)
NotCapturedAlloca(Addr) == Addr.base = "alloca"

\* Mutant: the write set is searched by base object, not by operand value.
WriteTargetsCount_ByBase(WT, Addr) == \E a \in WT : a.base = Addr.base

\* WriteTargets.count(Addr): membership of the operand value itself.
WriteTargetsCount(WT, Addr) == Addr \in WT

(***************************************************************************)
(* IRBuilder<> IRB(I); IRB.CreateCall(...): the new call goes directly     *)
(* before instruction I.                                                   *)
(***************************************************************************)
\* Mutant: the new call goes directly after instruction I.
InsertBefore_After(fn, id, item) ==
    LET b == BlockOf(fn, id)
        p == PosOf(fn, id)
    IN  [fn EXCEPT !.blocks[b] = InsertAt(@, p + 1, item)]

InsertBefore(fn, id, item) ==
    LET b == BlockOf(fn, id)
        p == PosOf(fn, id)
    IN  [fn EXCEPT !.blocks[b] = InsertAt(@, p, item)]

\* IRB.CreateIntCast(getLineNumber(I), IRB.getInt8Ty(), false)
LineArg(I) == I.line % 256

\* The parameter types initializeCallbacks declares the lifecycle callbacks
\* and __tsan_print_variables with.
DeclaredParams(fn) ==
    CASE fn = "__tsan_print_variables" -> <<"i32", "i8*">>
      [] fn = "__tsan_main_func_exit" -> <<>>
      [] fn = "__tsan_func_entry" -> <<"i8*">>
      [] fn = "__tsan_func_exit" -> <<>>
      [] fn = "__tsan_ignore_thread_begin" -> <<>>
      [] fn = "__tsan_ignore_thread_end" -> <<>>

PrintVariablesCall(tag, I) ==
    RtCall("__tsan_print_variables",
           <<Arg("i32", tag), Arg("addr", 0), Arg("line", LineArg(I)),
             Arg("objname", 0)>>,
           I.id, FALSE)

(***************************************************************************)
(* chooseInstructionsToInstrument: Local is walked from its end with an    *)
(* initially empty WriteTargets; the result is the function with the       *)
(* print call put before every visited access, and All extended.           *)
(***************************************************************************)
RECURSIVE chooseLoop(_, _, _, _, _)
chooseLoop(fn, L, i, WT, A) ==
    IF i = 0 THEN [F |-> fn, All |-> A]
    ELSE
      LET I == InstOf(fn, L[i])
          Addr == I.addr
          IsStore == I.kind = "store"
          fn2 == InsertBefore(fn, I.id,
                              PrintVariablesCall(IF IsStore THEN 391 ELSE 403, I))
      IN  IF IsStore
          THEN IF ~shouldInstrumentReadWriteFromAddress(Addr)
               THEN chooseLoop(fn2, L, i - 1, WT, A)
               ELSE IF NotCapturedAlloca(Addr)
                    THEN chooseLoop(fn2, L, i - 1, WT \cup {Addr}, A)
                    ELSE chooseLoop(fn2, L, i - 1, WT \cup {Addr}, Append(A, I.id))
          ELSE IF ~shouldInstrumentReadWriteFromAddress(Addr)
               THEN chooseLoop(fn2, L, i - 1, WT, A)
               ELSE IF WriteTargetsCount(WT, Addr)
                    THEN chooseLoop(fn2, L, i - 1, WT, A)
                    ELSE IF addrPointsToConstantData(Addr)
                         THEN chooseLoop(fn2, L, i - 1, WT, A)
                         ELSE IF NotCapturedAlloca(Addr)
                              THEN chooseLoop(fn2, L, i - 1, WT, A)
                              ELSE chooseLoop(fn2, L, i - 1, WT, Append(A, I.id))

chooseInstructionsToInstrument(fn, L, A) == chooseLoop(fn, L, Len(L), {}, A)

(***************************************************************************)
(* Instruction classification of the traversal.                            *)
(***************************************************************************)
isAtomic(I) ==
    IF I.kind \in {"load", "store"} THEN I.atomic /\ I.scope = "cross"
    ELSE IF I.kind = "rmw" THEN TRUE
    ELSE IF I.kind = "cas" THEN TRUE
    ELSE IF I.kind = "fence" THEN TRUE
    ELSE FALSE

IsLoadOrStore(I) == I.kind \in {"load", "store"}

\* Mutant: only invokes are recognised, plain calls are not.
IsCallOrInvoke_InvokeOnly(I) == I.kind = "invoke"

\* isa<CallInst>(Inst) || isa<InvokeInst>(Inst); the bulk-memory
\* intrinsics are call instructions.
IsCallOrInvoke(I) == I.kind \in {"call", "invoke", "rtcall"} \cup MemIntrKinds

IsMemIntrinsic(I) == I.kind \in MemIntrKinds

(***************************************************************************)
(* Access lowering.                                                        *)
(***************************************************************************)
RECURSIVE countTrailingZeros(_)
countTrailingZeros(n) == IF n % 2 = 1 THEN 0 ELSE 1 + countTrailingZeros(n \div 2)

\* Mutant: the unusual sizes are not turned away.
getMemoryAccessFuncIndex_AnySize(size) ==
    IF size = 0 THEN -1 ELSE countTrailingZeros(size)

\* The argument is the store size in bytes of the type the address points to.
getMemoryAccessFuncIndex(size) ==
    LET TypeSize == size * 8
    IN  IF TypeSize # 8 /\ TypeSize # 16 /\ TypeSize # 32 /\ TypeSize # 64
           /\ TypeSize # 128
        THEN -1
        ELSE countTrailingZeros(TypeSize \div 8)

\* 1U << Idx
ByteSizeOf(Idx) == 2 ^ Idx

\* Mutant: only the natural alignment counts as aligned.
AlignedVariant_NaturalOnly(Alignment, size) ==
    LET TypeSize == size * 8
    IN  Alignment = 0 \/ (Alignment % (TypeSize \div 8)) = 0

\* The choice between TsanRead/TsanWrite[Idx] and the unaligned variants.
AlignedVariant(Alignment, size) ==
    LET TypeSize == size * 8
    IN  Alignment = 0 \/ Alignment >= 8 \/ (Alignment % (TypeSize \div 8)) = 0

AccessArgs(I) ==
    <<Arg("addr", 0), Arg("line", LineArg(I)), Arg("objname", 0), Arg("file", 0)>>

\* The probe instrumentLoadOrStore creates for I, given its size index.
AccessProbe(I, Idx) ==
    LET IsWrite == I.kind = "store"
    IN  IF IsWrite /\ isVtableAccess(I)
        THEN [RtCall("__tsan_vptr_update",
                     <<Arg("addr", 0), Arg("value", 0), Arg("line", LineArg(I)),
                       Arg("objname", 0), Arg("file", 0)>>, I.id, TRUE)
                EXCEPT !.addr = I.addr]
        ELSE IF ~IsWrite /\ isVtableAccess(I)
        THEN [RtCall("__tsan_vptr_read", AccessArgs(I), I.id, TRUE)
                EXCEPT !.addr = I.addr]
        ELSE [RtCall(IF AlignedVariant(I.align, I.size)
                     THEN (IF IsWrite THEN "__tsan_write" ELSE "__tsan_read")
                     ELSE (IF IsWrite THEN "__tsan_unaligned_write"
                                      ELSE "__tsan_unaligned_read"),
                     AccessArgs(I), I.id, TRUE)
                EXCEPT !.addr = I.addr, !.size = ByteSizeOf(Idx)]

instrumentLoadOrStore(fn, id) ==
    LET I == InstOf(fn, id)
        Idx == getMemoryAccessFuncIndex(I.size)
    IN  IF I.addr.base = "swifterror" THEN [F |-> fn, ret |-> FALSE]
        ELSE IF Idx < 0 THEN [F |-> fn, ret |-> FALSE]
        ELSE [F |-> InsertBefore(fn, id, AccessProbe(I, Idx)), ret |-> TRUE]

(***************************************************************************)
(* Atomic lowering.                                                        *)
(***************************************************************************)
\* Mutant: acquire is encoded with the value reserved for consume.
createOrdering_AcquireAsConsume(ord) ==
    CASE ord = "notatomic" -> -1
      [] ord = "unordered" -> 0
      [] ord = "monotonic" -> 0
      [] ord = "acquire" -> 1
      [] ord = "release" -> 3
      [] ord = "acq_rel" -> 4
      [] ord = "seq_cst" -> 5

\* -1 stands for llvm_unreachable.
createOrdering(ord) ==
    CASE ord = "notatomic" -> -1
      [] ord = "unordered" -> 0
      [] ord = "monotonic" -> 0
      [] ord = "acquire" -> 2
      [] ord = "release" -> 3
      [] ord = "acq_rel" -> 4
      [] ord = "seq_cst" -> 5

\* TsanAtomicRMW[op][i]: the name part of the probe, "" for nullptr.
TsanAtomicRMW(op) ==
    IF op = "xchg" THEN "_exchange"
    ELSE IF op = "add" THEN "_fetch_add"
    ELSE IF op = "sub" THEN "_fetch_sub"
    ELSE IF op = "and" THEN "_fetch_and"
    ELSE IF op = "or" THEN "_fetch_or"
    ELSE IF op = "xor" THEN "_fetch_xor"
    ELSE IF op = "nand" THEN "_fetch_nand"
    ELSE ""

\* ReplaceInstWithInst(I, C)
ReplaceInstWithInst(fn, id, item) ==
    LET b == BlockOf(fn, id)
        p == PosOf(fn, id)
    IN  [fn EXCEPT !.blocks[b] = ReplaceAt(@, p, item)]

\* I->eraseFromParent()
eraseFromParent(fn, id) ==
    LET b == BlockOf(fn, id)
        p == PosOf(fn, id)
    IN  [fn EXCEPT !.blocks[b] = RemoveAt(@, p)]

\* Operand values carry their type: a pointer or an integer of the access
\* width.  IRB.CreateBitOrPointerCast(V, Ty) with Ty the integer type of
\* the access width turns a pointer into that integer and leaves an integer
\* alone; IRB.CreateIntToPtr turns the integer back into a pointer.
TypedValue(isptr, n) == [isptr |-> isptr, n |-> n]
CreateBitOrPointerCast(v) == [isptr |-> FALSE, n |-> v.n]
CreateIntToPtr(v) == [isptr |-> TRUE, n |-> v.n]

AtomicCall(fn, args, I, Idx) ==
    [RtCall(fn, args, I.id, TRUE) EXCEPT !.addr = I.addr, !.size = ByteSizeOf(Idx)]

\* Mutant: the success flag compares the returned value with the new value.
CASCall_ComparesNew(I, Idx) ==
    LET CmpOperand == CreateBitOrPointerCast(TypedValue(I.isptr, I.cmp))
        NewOperand == CreateBitOrPointerCast(TypedValue(I.isptr, I.val))
    IN  [AtomicCall("__tsan_atomic_compare_exchange_val",
                    <<Arg("ptr", 0), Arg("cmp", CmpOperand.n), Arg("new", NewOperand.n),
                      Arg("ord", createOrdering(I.ord)),
                      Arg("ord", createOrdering(I.ford))>>, I, Idx)
           EXCEPT !.cmp = NewOperand.n, !.isptr = I.isptr]

\* The call that stands for a compare-exchange.  cmp is the operand the
\* returned value is compared with for the success flag; isptr says that
\* the returned value is cast back with IntToPtr for the old value.
CASCall(I, Idx) ==
    LET CmpOperand == CreateBitOrPointerCast(TypedValue(I.isptr, I.cmp))
        NewOperand == CreateBitOrPointerCast(TypedValue(I.isptr, I.val))
    IN  [AtomicCall("__tsan_atomic_compare_exchange_val",
                    <<Arg("ptr", 0), Arg("cmp", CmpOperand.n), Arg("new", NewOperand.n),
                      Arg("ord", createOrdering(I.ord)),
                      Arg("ord", createOrdering(I.ford))>>, I, Idx)
           EXCEPT !.cmp = CmpOperand.n, !.isptr = I.isptr]

instrumentAtomic(fn, id) ==
    LET I == InstOf(fn, id)
        Idx == getMemoryAccessFuncIndex(I.size)
    IN  IF I.kind = "load"
        THEN IF Idx < 0 THEN [F |-> fn, ret |-> FALSE]
             ELSE [F |-> InsertBefore(fn, id,
                           AtomicCall("__tsan_atomic_load",
                                      <<Arg("ptr", 0),
                                        Arg("ord", createOrdering(I.ord))>>, I, Idx)),
                   ret |-> TRUE]
        ELSE IF I.kind = "store"
        THEN IF Idx < 0 THEN [F |-> fn, ret |-> FALSE]
             ELSE [F |-> ReplaceInstWithInst(fn, id,
                           AtomicCall("__tsan_atomic_store",
                                      <<Arg("ptr", 0), Arg("value", 0),
                                        Arg("ord", createOrdering(I.ord))>>, I, Idx)),
                   ret |-> TRUE]
        ELSE IF I.kind = "rmw"
        THEN IF Idx < 0 THEN [F |-> fn, ret |-> FALSE]
             ELSE IF TsanAtomicRMW(I.op) = "" THEN [F |-> fn, ret |-> FALSE]
             ELSE [F |-> ReplaceInstWithInst(fn, id,
                           [AtomicCall("__tsan_atomic_rmw",
                                       <<Arg("ptr", 0), Arg("value", 0),
                                         Arg("ord", createOrdering(I.ord))>>, I, Idx)
                              EXCEPT !.op = TsanAtomicRMW(I.op)]),
                   ret |-> TRUE]
        ELSE IF I.kind = "cas"
        THEN IF Idx < 0 THEN [F |-> fn, ret |-> FALSE]
             ELSE [F |-> eraseFromParent(InsertBefore(fn, id, CASCall(I, Idx)), id),
                   ret |-> TRUE]
        ELSE IF I.kind = "fence"
        THEN [F |-> ReplaceInstWithInst(fn, id,
                      [RtCall(IF I.scope = "single"
                              THEN "__tsan_atomic_signal_fence"
                              ELSE "__tsan_atomic_thread_fence",
                              <<Arg("ord", createOrdering(I.ord))>>, I.id, TRUE)
                         EXCEPT !.scope = I.scope]),
              ret |-> TRUE]
        ELSE [F |-> fn, ret |-> TRUE]

(***************************************************************************)
(* Bulk-memory lowering.                                                   *)
(***************************************************************************)
MemFn(kind) ==
    IF kind = "memset" THEN "memset"
    ELSE IF kind = "memcpy" THEN "memcpy"
    ELSE "memmove"

\* IRB.CreatePointerCast to i8*: the same address.
CreatePointerCast(v) == v
\* IRB.CreateIntCast(V, Ty, false): zero-extends to a wider type and
\* truncates to a narrower one.
CreateIntCast(v, bits) ==
    [v EXCEPT !.bits = bits,
              !.hi = IF bits <= 32 THEN 0 ELSE @,
              !.n = IF bits < 32 THEN @ % (2 ^ bits) ELSE @]

\* The arguments of the call: getArgOperand(0), (1) and (2) converted to
\* the parameter types of memset / memcpy / memmove.
MemArgs(fn, I) ==
    IF I.kind = "memset"
    THEN <<CreatePointerCast(I.args[1]), CreateIntCast(I.args[2], 32),
           CreateIntCast(I.args[3], fn.intptr)>>
    ELSE <<CreatePointerCast(I.args[1]), CreatePointerCast(I.args[2]),
           CreateIntCast(I.args[3], fn.intptr)>>

\* Mutant: the call is created but the intrinsic is not erased.
instrumentMemIntrinsic_KeepsOriginal(fn, id) ==
    LET I == InstOf(fn, id)
    IN  IF I.kind \in MemIntrKinds
        THEN [F |-> InsertBefore(fn, id, RtCall(MemFn(I.kind), MemArgs(fn, I), id, TRUE)),
              ret |-> FALSE]
        ELSE [F |-> fn, ret |-> FALSE]

instrumentMemIntrinsic(fn, id) ==
    LET I == InstOf(fn, id)
    IN  IF I.kind = "memset"
        THEN [F |-> eraseFromParent(
                      InsertBefore(fn, id, RtCall(MemFn(I.kind), MemArgs(fn, I), id, TRUE)),
                      id),
              ret |-> FALSE]
        ELSE IF I.kind \in {"memcpy", "memmove"}
        THEN [F |-> eraseFromParent(
                      InsertBefore(fn, id, RtCall(MemFn(I.kind), MemArgs(fn, I), id, TRUE)),
                      id),
              ret |-> FALSE]
        ELSE [F |-> fn, ret |-> FALSE]

(***************************************************************************)
(* EscapeEnumerator (llvm/Transforms/Utils/EscapeEnumerator.h) as the pass *)
(* uses it: the given call is created before every return and resume;     *)
(* then, when exceptions are handled and the function may unwind, every    *)
(* call instruction that may throw is turned into an invoke that unwinds   *)
(* to one new cleanup block (landingpad; resume), and the call is created  *)
(* before that resume as well.                                             *)
(***************************************************************************)
IsExitBlock(blk) == blk[Len(blk)].kind \in {"ret", "resume"}

\* A call instruction (not an invoke) that may throw.
MayThrowCall(it) ==
    /\ it.kind \in {"call", "rtcall"} \cup MemIntrKinds
    /\ it.unwind = ""
    /\ ~it.nothrow

AtExit(blk, call) ==
    InsertAt(blk, Len(blk), [call EXCEPT !.covers = blk[Len(blk)].id])

EscapeEnumerator(fn, CleanupBBName, HandleExceptions, call) ==
    LET atExits == [b \in Blocks(fn) |->
                      IF IsExitBlock(fn.blocks[b])
                      THEN AtExit(fn.blocks[b], call)
                      ELSE fn.blocks[b]]
        throwing == \E b \in Blocks(fn) : \E p \in 1..Len(atExits[b]) :
                        MayThrowCall(atExits[b][p])
        toInvoke == [b \in Blocks(fn) |->
                       [p \in 1..Len(atExits[b]) |->
                          IF MayThrowCall(atExits[b][p])
                          THEN [atExits[b][p] EXCEPT !.unwind = CleanupBBName]
                          ELSE atExits[b][p]]]
        CleanupBB == <<[Blank EXCEPT !.kind = "landingpad", !.fn = CleanupBBName],
                       call,
                       Term("resume")>>
    IN  IF ~HandleExceptions THEN [fn EXCEPT !.blocks = atExits]
        ELSE IF fn.nounwind THEN [fn EXCEPT !.blocks = atExits]
        ELSE IF ~throwing THEN [fn EXCEPT !.blocks = atExits]
        ELSE [fn EXCEPT !.blocks = Append(toInvoke, CleanupBB)]

\* IRBuilder<> IRB(F.getEntryBlock().getFirstNonPHI()); IRB.CreateCall(call)
InsertAtEntry(fn, call) == [fn EXCEPT !.blocks[1] = InsertAt(@, 1, call)]

\* Mutant: the ignore bracket is closed before returns and resumes only.
InsertRuntimeIgnores_ReturnsOnly(fn) ==
    EscapeEnumerator(
        InsertAtEntry(fn, RtCall("__tsan_ignore_thread_begin", <<>>, 0, TRUE)),
        "tsan_ignore_cleanup", FALSE,
        RtCall("__tsan_ignore_thread_end", <<>>, 0, TRUE))

InsertRuntimeIgnores(fn) ==
    EscapeEnumerator(
        InsertAtEntry(fn, RtCall("__tsan_ignore_thread_begin", <<>>, 0, TRUE)),
        "tsan_ignore_cleanup", ClHandleCxxExceptions,
        RtCall("__tsan_ignore_thread_end", <<>>, 0, TRUE))

\* EmbedSanitizer::getFuncNameStr(F) == "main"
IsMain(fn) == fn.name = "main"

FuncNameArg == <<Arg("funcname", 0)>>

\* Mutant: the exit enumerator of func_exit does not handle exceptions.
InstrumentFuncEntryExit_ReturnsOnly(fn) ==
    LET entered == InsertAtEntry(fn, RtCall("__tsan_func_entry", FuncNameArg, 0, TRUE))
        exited == EscapeEnumerator(entered, "tsan_cleanup", FALSE,
                                   RtCall("__tsan_func_exit", FuncNameArg, 0, TRUE))
    IN  IF IsMain(fn)
        THEN EscapeEnumerator(exited, "tsan_cleanup_report", ClHandleCxxExceptions,
                              RtCall("__tsan_main_func_exit", FuncNameArg, 0, TRUE))
        ELSE exited

\* The body of "if ((Res || HasCalls) && ClInstrumentFuncEntryExit)".
InstrumentFuncEntryExit(fn) ==
    LET entered == InsertAtEntry(fn, RtCall("__tsan_func_entry", FuncNameArg, 0, TRUE))
        exited == EscapeEnumerator(entered, "tsan_cleanup", ClHandleCxxExceptions,
                                   RtCall("__tsan_func_exit", FuncNameArg, 0, TRUE))
    IN  IF IsMain(fn)
        THEN EscapeEnumerator(exited, "tsan_cleanup_report", ClHandleCxxExceptions,
                              RtCall("__tsan_main_func_exit", FuncNameArg, 0, TRUE))
        ELSE exited

(***************************************************************************)
(* runOnFunction, step by step.                                            *)
(***************************************************************************)
kTsanModuleCtorName == "tsan.module_ctor"

\* bool SanitizeFunction = F.hasFnAttribute(Attribute::SanitizeThread);
SanitizeFunction(fn) == fn.sanitize

\* Mutants of the phase guards.
InstrumentsAtomics_SanitizedOnly(fn) == ClInstrumentAtomics /\ SanitizeFunction(fn)
InstrumentsEntryExit_CallsOnly(res, hasCalls) == hasCalls /\ ClInstrumentFuncEntryExit

\* The conditions that guard the four instrumentation phases.
InstrumentsMemoryAccesses(fn) == ClInstrumentMemoryAccesses /\ SanitizeFunction(fn)
InstrumentsAtomics(fn) == ClInstrumentAtomics
InstrumentsMemIntrinsics(fn) == ClInstrumentMemIntrinsics /\ SanitizeFunction(fn)
InstrumentsEntryExit(res, hasCalls) == (res \/ hasCalls) /\ ClInstrumentFuncEntryExit

\* if (&F == TsanCtorFunction) return false; initializeCallbacks(...)
Enter ==
    /\ pc = "start"
    /\ pc' = IF F.name = kTsanModuleCtorName THEN "done" ELSE "scan"
    /\ UNCHANGED <<F, orig, ndebug, bb, ip, Local, All, AtomicAccesses,
                   MemIntrinCalls, Res, HasCalls, k>>
    /\ UNCHANGED rtvars

\* The traversal if an atomic operation ended the segment as a call does.
VisitInst_AtomicClosesSegment ==
    /\ pc = "scan"
    /\ ip # 0
    /\ LET Inst == InstOf(F, ip)
           p == PosOf(F, ip)
           blk == F.blocks[bb]
           chosen == chooseInstructionsToInstrument(F, Local, All)
       IN  /\ ip' = IF p = Len(blk) THEN 0 ELSE blk[p + 1].id
           /\ IF isAtomic(Inst)
              THEN /\ AtomicAccesses' = Append(AtomicAccesses, ip)
                   /\ F' = chosen.F
                   /\ All' = chosen.All
                   /\ Local' = <<>>
                   /\ UNCHANGED <<MemIntrinCalls, HasCalls>>
              ELSE IF IsLoadOrStore(Inst)
              THEN /\ Local' = Append(Local, ip)
                   /\ UNCHANGED <<F, All, AtomicAccesses, MemIntrinCalls, HasCalls>>
              ELSE IF IsCallOrInvoke(Inst)
              THEN /\ MemIntrinCalls' = IF IsMemIntrinsic(Inst)
                                        THEN Append(MemIntrinCalls, ip)
                                        ELSE MemIntrinCalls
                   /\ HasCalls' = TRUE
                   /\ F' = chosen.F
                   /\ All' = chosen.All
                   /\ Local' = <<>>
                   /\ UNCHANGED AtomicAccesses
              ELSE UNCHANGED <<F, Local, All, AtomicAccesses, MemIntrinCalls, HasCalls>>
    /\ UNCHANGED <<orig, ndebug, pc, bb, Res, k>>
    /\ UNCHANGED rtvars

\* One iteration of "for (auto &Inst : BB)".
VisitInst ==
    /\ pc = "scan"
    /\ ip # 0
    /\ LET Inst == InstOf(F, ip)
           p == PosOf(F, ip)
           blk == F.blocks[bb]
           chosen == chooseInstructionsToInstrument(F, Local, All)
       IN  /\ ip' = IF p = Len(blk) THEN 0 ELSE blk[p + 1].id
           /\ IF isAtomic(Inst)
              THEN /\ AtomicAccesses' = Append(AtomicAccesses, ip)
                   /\ UNCHANGED <<F, Local, All, MemIntrinCalls, HasCalls>>
              ELSE IF IsLoadOrStore(Inst)
              THEN /\ Local' = Append(Local, ip)
                   /\ UNCHANGED <<F, All, AtomicAccesses, MemIntrinCalls, HasCalls>>
              ELSE IF IsCallOrInvoke(Inst)
              THEN /\ MemIntrinCalls' = IF IsMemIntrinsic(Inst)
                                        THEN Append(MemIntrinCalls, ip)
                                        ELSE MemIntrinCalls
                   /\ HasCalls' = TRUE
                   /\ F' = chosen.F
                   /\ All' = chosen.All
                   /\ Local' = <<>>
                   /\ UNCHANGED AtomicAccesses
              ELSE UNCHANGED <<F, Local, All, AtomicAccesses, MemIntrinCalls, HasCalls>>
    /\ UNCHANGED <<orig, ndebug, pc, bb, Res, k>>
    /\ UNCHANGED rtvars

\* The end of "for (auto &Inst : BB)": the call of
\* chooseInstructionsToInstrument after it, then the next block.
EndBlock ==
    /\ pc = "scan"
    /\ ip = 0
    /\ LET chosen == chooseInstructionsToInstrument(F, Local, All)
       IN  /\ F' = chosen.F
           /\ All' = chosen.All
           /\ Local' = <<>>
    /\ IF bb < Len(F.blocks)
       THEN /\ bb' = bb + 1
            /\ ip' = F.blocks[bb + 1][1].id
            /\ UNCHANGED <<pc, k>>
       ELSE /\ pc' = "access"
            /\ k' = 1
            /\ UNCHANGED <<bb, ip>>
    /\ UNCHANGED <<orig, ndebug, AtomicAccesses, MemIntrinCalls, Res, HasCalls>>
    /\ UNCHANGED rtvars

\* if (ClInstrumentMemoryAccesses && SanitizeFunction)
\*   for (auto Inst : AllLoadsAndStores) Res |= instrumentLoadOrStore(Inst, DL);
LowerAccess ==
    /\ pc = "access"
    /\ IF InstrumentsMemoryAccesses(F) /\ k <= Len(All)
       THEN LET r == instrumentLoadOrStore(F, All[k])
            IN  /\ F' = r.F
                /\ Res' = (Res \/ r.ret)
                /\ k' = k + 1
                /\ UNCHANGED pc
       ELSE /\ pc' = "atomic"
            /\ k' = 1
            /\ UNCHANGED <<F, Res>>
    /\ UNCHANGED <<orig, ndebug, bb, ip, Local, All, AtomicAccesses,
                   MemIntrinCalls, HasCalls>>
    /\ UNCHANGED rtvars

\* if (ClInstrumentAtomics)
\*   for (auto Inst : AtomicAccesses) Res |= instrumentAtomic(Inst, DL);
LowerAtomic ==
    /\ pc = "atomic"
    /\ IF InstrumentsAtomics(F) /\ k <= Len(AtomicAccesses)
       THEN LET r == instrumentAtomic(F, AtomicAccesses[k])
            IN  /\ F' = r.F
                /\ Res' = (Res \/ r.ret)
                /\ k' = k + 1
                /\ UNCHANGED pc
       ELSE /\ pc' = "memintrin"
            /\ k' = 1
            /\ UNCHANGED <<F, Res>>
    /\ UNCHANGED <<orig, ndebug, bb, ip, Local, All, AtomicAccesses,
                   MemIntrinCalls, HasCalls>>
    /\ UNCHANGED rtvars

\* if (ClInstrumentMemIntrinsics && SanitizeFunction)
\*   for (auto Inst : MemIntrinCalls) Res |= instrumentMemIntrinsic(Inst);
LowerMemIntrinsic ==
    /\ pc = "memintrin"
    /\ IF InstrumentsMemIntrinsics(F) /\ k <= Len(MemIntrinCalls)
       THEN LET r == instrumentMemIntrinsic(F, MemIntrinCalls[k])
            IN  /\ F' = r.F
                /\ Res' = (Res \/ r.ret)
                /\ k' = k + 1
                /\ UNCHANGED pc
       ELSE /\ pc' = "ignores"
            /\ k' = 1
            /\ UNCHANGED <<F, Res>>
    /\ UNCHANGED <<orig, ndebug, bb, ip, Local, All, AtomicAccesses,
                   MemIntrinCalls, HasCalls>>
    /\ UNCHANGED rtvars

\* if (F.hasFnAttribute("sanitize_thread_no_checking_at_run_time")) {
\*   assert(!F.hasFnAttribute(Attribute::SanitizeThread));
\*   if (HasCalls) InsertRuntimeIgnores(F); }
\* The assertion stops the pass only in a build that keeps assertions.
RuntimeIgnores ==
    /\ pc = "ignores"
    /\ IF F.noCheck /\ F.sanitize /\ ~ndebug
       THEN /\ pc' = "aborted"
            /\ UNCHANGED F
       ELSE /\ pc' = "entryexit"
            /\ F' = IF F.noCheck /\ HasCalls THEN InsertRuntimeIgnores(F) ELSE F
    /\ UNCHANGED <<orig, ndebug, bb, ip, Local, All, AtomicAccesses,
                   MemIntrinCalls, Res, HasCalls, k>>
    /\ UNCHANGED rtvars

\* if ((Res || HasCalls) && ClInstrumentFuncEntryExit) { ...; Res = true; ... }
\* return Res;
FuncEntryExit ==
    /\ pc = "entryexit"
    /\ pc' = "done"
    /\ IF InstrumentsEntryExit(Res, HasCalls)
       THEN /\ F' = InstrumentFuncEntryExit(F)
            /\ Res' = TRUE
       ELSE UNCHANGED <<F, Res>>
    /\ UNCHANGED <<orig, ndebug, bb, ip, Local, All, AtomicAccesses,
                   MemIntrinCalls, HasCalls, k>>
    /\ UNCHANGED rtvars

Next ==
    \/ Enter
    \/ VisitInst
    \/ EndBlock
    \/ LowerAccess
    \/ LowerAtomic
    \/ LowerMemIntrinsic
    \/ RuntimeIgnores
    \/ FuncEntryExit

(***************************************************************************)
(* The functions the pass is run on.                                       *)
(***************************************************************************)
RECURSIVE LenBefore(_, _)
LenBefore(bs, b) == IF b = 1 THEN 0 ELSE LenBefore(bs, b - 1) + Len(bs[b - 1])

\* Instruction ids in program order.
Number(bs) ==
    [b \in 1..Len(bs) |->
       [p \in 1..Len(bs[b]) |-> [bs[b][p] EXCEPT !.id = LenBefore(bs, b) + p]]]

MkFn(name, sanitize, noCheck, nounwind, bs) ==
    [name |-> name, sanitize |-> sanitize, noCheck |-> noCheck,
     nounwind |-> nounwind, intptr |-> 64, blocks |-> Number(bs)]
\* The same function in a module whose pointers have the given width.
OnTarget(fn, bits) == [fn EXCEPT !.intptr = bits]

SeqsUpTo(S, n) == UNION {[1..m -> S] : m \in 0..n}

G1 == AddrOp("global", 1)    \* a mutable global
G2 == AddrOp("global", 2)    \* the same global through another operand value
K1 == AddrOp("const", 1)     \* a constant global
S1 == AddrOp("alloca", 1)    \* a stack slot that is never captured
X1 == AddrOp("as1", 1)       \* an address in address space 1
H1 == AddrOp("captured", 1)  \* a stack slot whose address is captured
P1 == AddrOp("gcov", 1)      \* private gcov data
SE == AddrOp("swifterror", 1)

Sizes == {1, 2, 3, 4, 8, 16, 32}
Aligns == {0, 1, 2, 4, 8, 16}
Lines == {7, 255, 256, 300}
Vals == 0..MaxVal
AllRMWOps == {"xchg", "add", "sub", "and", "or", "xor", "nand",
              "max", "min", "umax", "umin"}
RMWOrds == {"monotonic", "acquire", "release", "acq_rel", "seq_cst"}
FenceOrds == {"acquire", "release", "acq_rel", "seq_cst"}
CASOrds == {<<"monotonic", "monotonic">>, <<"acquire", "monotonic">>,
            <<"acquire", "acquire">>, <<"release", "monotonic">>,
            <<"acq_rel", "monotonic">>, <<"acq_rel", "acquire">>,
            <<"seq_cst", "monotonic">>, <<"seq_cst", "acquire">>,
            <<"seq_cst", "seq_cst">>}

\* Segment family: race-checked functions of up to MaxInsts instructions,
\* in one block or split over two.
SegMenu ==
    {Load(G1), Store(G1), Store(G2), Load(S1), Store(S1),
     Call(FALSE), RMW(G1, "add", "seq_cst", 4)}

SegBlocks(body, s) ==
    IF s = 0 THEN <<body \o <<Term("ret")>>>>
    ELSE <<SubSeq(body, 1, s) \o <<Term("br")>>,
           SubSeq(body, s + 1, Len(body)) \o <<Term("ret")>>>>

SegFunctions ==
    UNION {{MkFn("f", TRUE, FALSE, FALSE, SegBlocks(body, s)) :
              s \in 0..(IF Len(body) = 0 THEN 0 ELSE Len(body) - 1)} :
           body \in SeqsUpTo(SegMenu, MaxInsts)}

\* Exit family: every combination of the function attributes over a few
\* control-flow shapes, with up to MaxExitBody instructions in one block.
ExitMenu ==
    {Call(FALSE), Call(TRUE), Load(G1), RMW(G1, "add", "seq_cst", 4),
     MemIntr("memset", 64, 0)}

Shapes ==
    {<<"ret">>, <<"br", "br">>, <<"br", "ret", "ret">>,
     <<"invoke", "ret", "resume">>, <<"br", "ret", "unreachable">>}

ExitBlocks(shape, at, body) ==
    [b \in 1..Len(shape) |->
       (IF b = at THEN body ELSE <<>>) \o <<Term(shape[b])>>]

ExitFunctions ==
    {MkFn(name, a[1], a[2], nounwind, ExitBlocks(sh[1], sh[2], body)) :
       name \in {"main", "f"},
       a \in BOOLEAN \X BOOLEAN,
       nounwind \in BOOLEAN,
       sh \in UNION {{<<shape, at>> : at \in 1..Len(shape)} : shape \in Shapes},
       body \in SeqsUpTo(ExitMenu, MaxExitBody)}

\* Single-instruction family: one plain access, atomic operation or
\* bulk-memory intrinsic, over its sizes, alignments, lines, orderings
\* and operand values.
PlainAccess(kind, a, size, align, line, vtable) ==
    [Blank EXCEPT !.kind = kind, !.addr = a, !.size = size, !.align = align,
                  !.line = line, !.vtable = vtable]

SingleInsts ==
    {PlainAccess(kind, G1, size, align, 7, FALSE) :
        kind \in {"load", "store"}, size \in Sizes, align \in Aligns}
    \cup {PlainAccess(kind, G1, 4, 0, line, vtable) :
        kind \in {"load", "store"}, line \in Lines, vtable \in BOOLEAN}
    \cup {PlainAccess(kind, a, 4, 0, 7, FALSE) :
        kind \in {"load", "store"}, a \in {SE, K1, X1, S1, H1, P1}}
    \cup {AtomicLS("load", G1, scope, ord, size) :
        scope \in {"cross", "single"},
        ord \in {"unordered", "monotonic", "acquire", "seq_cst"}, size \in Sizes}
    \cup {AtomicLS("store", G1, scope, ord, size) :
        scope \in {"cross", "single"},
        ord \in {"unordered", "monotonic", "release", "seq_cst"}, size \in Sizes}
    \cup {RMW(G1, op, "seq_cst", 4) : op \in AllRMWOps}
    \cup {RMW(G1, "add", ord, size) : ord \in RMWOrds, size \in Sizes}
    \cup {CAS(G1, size, FALSE, c, v, "seq_cst", "seq_cst") :
        size \in Sizes, c \in Vals, v \in Vals}
    \cup {CAS(G1, 4, isptr, c, v, o[1], o[2]) :
        isptr \in BOOLEAN, c \in Vals, v \in Vals, o \in CASOrds}
    \cup {Fence(scope, ord) : scope \in {"cross", "single"}, ord \in FenceOrds}

SingleFunctions ==
    {MkFn("f", sanitize, FALSE, FALSE, <<<<I, Term("ret")>>>>) :
       sanitize \in BOOLEAN, I \in SingleInsts}

\* Bulk family: one bulk-memory intrinsic with an i32 or an i64 length, in
\* a module with 32-bit or 64-bit pointers.
BulkFunctions ==
    {OnTarget(MkFn("f", sanitize, FALSE, FALSE, <<<<MemIntr(kind, l[1], l[2]), Term("ret")>>>>), w) :
       sanitize \in BOOLEAN, kind \in MemIntrKinds,
       l \in {<<32, 0>>, <<64, 0>>, <<64, 1>>}, w \in {32, 64}}

\* Mixed family: an access of an unsupported size next to an access of a
\* supported size at another address, in either order.
OddInsts ==
    {PlainAccess("load", G1, 3, 1, 7, FALSE), PlainAccess("store", G1, 32, 0, 7, FALSE),
     AtomicLS("load", G1, "cross", "acquire", 32),
     AtomicLS("store", G1, "cross", "release", 32),
     RMW(G1, "add", "seq_cst", 32), CAS(G1, 32, FALSE, 0, 1, "seq_cst", "seq_cst")}
EvenInsts ==
    {Load(H1), Store(H1), RMW(H1, "add", "seq_cst", 4),
     CAS(H1, 8, FALSE, 0, 1, "seq_cst", "seq_cst")}
MixedFunctions ==
    {MkFn("f", sanitize, FALSE, FALSE, <<body \o <<Term("ret")>>>>) :
       sanitize \in BOOLEAN,
       body \in UNION {{<<odd, even>>, <<even, odd>>} : odd \in OddInsts, even \in EvenInsts}}

\* Atomic family: a plain load and a plain store with an atomic operation,
\* or an atomic operation and a call, between them, in one block.
BetweenInsts ==
    {AtomicLS("load", G1, "cross", "acquire", 4),
     AtomicLS("store", G1, "cross", "release", 4),
     AtomicLS("store", G2, "cross", "seq_cst", 4),
     RMW(G1, "xchg", "acq_rel", 4), RMW(G2, "add", "seq_cst", 4),
     CAS(G1, 4, FALSE, 0, 1, "seq_cst", "seq_cst"),
     Fence("cross", "seq_cst"), Fence("single", "acquire")}
AtomicSegFunctions ==
    {MkFn("f", TRUE, FALSE, FALSE, <<<<Load(G1), between>> \o closer \o <<st, Term("ret")>>>>) :
       between \in BetweenInsts, closer \in {<<>>, <<Call(TRUE)>>},
       st \in {Store(G1), Store(G2)}}

\* The module constructor the pass itself created.
CtorFunction == MkFn(kTsanModuleCtorName, FALSE, FALSE, FALSE,
                     <<<<Call(FALSE), Term("ret")>>>>)


(***************************************************************************)
(* The runtime of src/etsan/race_report.h.  Every thread is either outside *)
(* the runtime ("idle") or at a place inside one of its functions; a place *)
(* named after an access is the time the thread spends in that access.     *)
(***************************************************************************)
Threads == {1, 2}
FuncNames == {"f", "g"}
AccessTypes == {"read", "write"}
LineNos == {7}

\* What an unsynchronised copy of a vector gives while its owner changes it.
Garbage == <<"?">>

Idle == [pc |-> "idle", op |-> "", funcName |-> "", tid |-> 0, lineNo |-> 0,
         accessType |-> "", trace |-> <<>>, logged |-> FALSE]

RtInit ==
    /\ callStack = << >>
    /\ races = {}
    /\ stackFrameLock = 0
    /\ racePrintLock = 0
    /\ th = [t \in Threads |-> Idle]

\* std::unordered_map::operator[]: the entry, created empty when absent.
Subscript(map, tid) == IF tid \in DOMAIN map THEN map ELSE map @@ (tid :> <<>>)
StackOf(map, tid) == IF tid \in DOMAIN map THEN map[tid] ELSE <<>>

\* Race race(tid, lineNo, "read"/"write", objName, fileName); race.trace = ...
Race(tid, lineNo, accessType, trace) ==
    [tid |-> tid, lineNo |-> lineNo, accessType |-> accessType, trace |-> trace]

\* The shared objects a thread at this place is reading or writing.
Accessing(t) ==
    LET me == th[t]
    IN  CASE me.pc = "push_body" -> {[obj |-> "callStack", tid |-> 0, write |-> TRUE],
                                      [obj |-> "vector", tid |-> t, write |-> TRUE]}
          [] me.pc \in {"pop_ref", "get_ref", "ps_ref"} ->
                 {[obj |-> "callStack", tid |-> 0, write |-> TRUE]}
          [] me.pc = "pop_test" -> {[obj |-> "vector", tid |-> t, write |-> FALSE]}
          [] me.pc = "pop_back" -> {[obj |-> "vector", tid |-> t, write |-> TRUE]}
          [] me.pc = "get_copy" -> {[obj |-> "vector", tid |-> me.tid, write |-> FALSE]}
          [] me.pc = "ps_iter" -> {[obj |-> "vector", tid |-> t, write |-> FALSE]}
          [] me.pc = "insert" -> {[obj |-> "races", tid |-> 0, write |-> TRUE]}
          [] me.pc = "iterate" -> {[obj |-> "races", tid |-> 0, write |-> FALSE]}
          [] OTHER -> {}

\* Another thread is inside an access that conflicts with access a of t.
Overlaps(t, a) ==
    \E u \in Threads \ {t} : \E b \in Accessing(u) :
       /\ b.obj = a.obj
       /\ b.tid = a.tid
       /\ a.write \/ b.write

Goto(t, place) == th' = [th EXCEPT ![t].pc = place]
Return(t) == th' = [th EXCEPT ![t] = Idle]

\* ---- pushFunction(funcName) ----
\* unsigned int tid = pthread_self(); stackFrameLock.lock();
pushFunction_lock(t) ==
    /\ th[t].pc = "idle"
    /\ Len(StackOf(callStack, t)) < MaxDepth
    /\ stackFrameLock = 0
    /\ stackFrameLock' = t
    /\ \E f \in FuncNames :
          th' = [th EXCEPT ![t] = [Idle EXCEPT !.pc = "push_body", !.op = "push",
                                               !.funcName = f]]
    /\ UNCHANGED <<callStack, races, racePrintLock>>
    /\ UNCHANGED vars

\* callStack[tid].push_back(funcName); printf(...); stackFrameLock.unlock();
pushFunction_body(t) ==
    /\ th[t].pc = "push_body"
    /\ callStack' = [Subscript(callStack, t) EXCEPT ![t] = Append(@, th[t].funcName)]
    /\ stackFrameLock' = 0
    /\ Return(t)
    /\ UNCHANGED <<races, racePrintLock>>
    /\ UNCHANGED vars

\* ---- popFunction(funcName) ----
\* unsigned int tid = pthread_self(); stackFrameLock.lock();
popFunction_lock(t) ==
    /\ th[t].pc = "idle"
    /\ stackFrameLock = 0
    /\ stackFrameLock' = t
    /\ \E f \in FuncNames :
          th' = [th EXCEPT ![t] = [Idle EXCEPT !.pc = "pop_ref", !.op = "pop",
                                               !.funcName = f]]
    /\ UNCHANGED <<callStack, races, racePrintLock>>
    /\ UNCHANGED vars

\* std::vector<char *> &stackFrame = callStack[tid]; stackFrameLock.unlock();
popFunction_ref(t) ==
    /\ th[t].pc = "pop_ref"
    /\ callStack' = Subscript(callStack, t)
    /\ stackFrameLock' = 0
    /\ Goto(t, "pop_test")
    /\ UNCHANGED <<races, racePrintLock>>
    /\ UNCHANGED vars

\* Mutant: the top frame is removed whatever its name.
popFunction_test_AnyTop(t) ==
    /\ th[t].pc = "pop_test"
    /\ LET stackFrame == callStack[t]
       IN  IF Len(stackFrame) # 0
           THEN Goto(t, "pop_back")
           ELSE th' = [th EXCEPT ![t] = [Idle EXCEPT !.logged = TRUE]]
    /\ UNCHANGED <<callStack, races, stackFrameLock, racePrintLock>>
    /\ UNCHANGED vars

\* if (stackFrame.size() && stackFrame.back() == funcName) ...
\* else std::cout << "Something wrong with Function Stack: " ...
popFunction_test(t) ==
    /\ th[t].pc = "pop_test"
    /\ LET stackFrame == callStack[t]
       IN  IF Len(stackFrame) # 0 /\ stackFrame[Len(stackFrame)] = th[t].funcName
           THEN Goto(t, "pop_back")
           ELSE th' = [th EXCEPT ![t] = [Idle EXCEPT !.logged = TRUE]]
    /\ UNCHANGED <<callStack, races, stackFrameLock, racePrintLock>>
    /\ UNCHANGED vars

\* stackFrame.pop_back();
popFunction_pop_back(t) ==
    /\ th[t].pc = "pop_back"
    /\ callStack' = [callStack EXCEPT ![t] = SubSeq(@, 1, Len(@) - 1)]
    /\ Return(t)
    /\ UNCHANGED <<races, stackFrameLock, racePrintLock>>
    /\ UNCHANGED vars

\* ---- getStack(tid), called directly or by reportRaceOnRead/Write ----
\* stackFrameLock.lock();
getStack_lock(t) ==
    /\ th[t].pc = "idle"
    /\ stackFrameLock = 0
    /\ stackFrameLock' = t
    /\ \E tid \in Threads :
          th' = [th EXCEPT ![t] = [Idle EXCEPT !.pc = "get_ref", !.op = "get",
                                               !.tid = tid]]
    /\ UNCHANGED <<callStack, races, racePrintLock>>
    /\ UNCHANGED vars

\* std::vector<char *> &stackFrame = callStack[tid]; stackFrameLock.unlock();
getStack_ref(t) ==
    /\ th[t].pc = "get_ref"
    /\ callStack' = Subscript(callStack, th[t].tid)
    /\ stackFrameLock' = 0
    /\ Goto(t, "get_copy")
    /\ UNCHANGED <<races, racePrintLock>>
    /\ UNCHANGED vars

\* return stackFrame;  (the copy is made after the unlock; a copy made
\* while the owner changes the vector gives the vector or garbage)
getStack_copy(t) ==
    /\ th[t].pc = "get_copy"
    /\ \E copy \in {callStack[th[t].tid]} \cup
                   (IF Overlaps(t, [obj |-> "vector", tid |-> th[t].tid, write |-> FALSE])
                    THEN {Garbage} ELSE {}) :
          IF th[t].op = "get"
          THEN Return(t)
          ELSE th' = [th EXCEPT ![t].trace = copy, ![t].pc = "insert"]
    /\ UNCHANGED <<callStack, races, stackFrameLock, racePrintLock>>
    /\ UNCHANGED vars

\* ---- printStack() ----
\* unsigned int tid = pthread_self(); stackFrameLock.lock();
printStack_lock(t) ==
    /\ th[t].pc = "idle"
    /\ stackFrameLock = 0
    /\ stackFrameLock' = t
    /\ th' = [th EXCEPT ![t] = [Idle EXCEPT !.pc = "ps_ref", !.op = "printStack"]]
    /\ UNCHANGED <<callStack, races, racePrintLock>>
    /\ UNCHANGED vars

\* std::vector<char *> &stackFrame = callStack[tid]; stackFrameLock.unlock();
printStack_ref(t) ==
    /\ th[t].pc = "ps_ref"
    /\ callStack' = Subscript(callStack, t)
    /\ stackFrameLock' = 0
    /\ Goto(t, "ps_iter")
    /\ UNCHANGED <<races, racePrintLock>>
    /\ UNCHANGED vars

\* for (char *func : stackFrame) ...; return ss.str();
printStack_iterate(t) ==
    /\ th[t].pc = "ps_iter"
    /\ Return(t)
    /\ UNCHANGED <<callStack, races, stackFrameLock, racePrintLock>>
    /\ UNCHANGED vars

\* ---- reportRaceOnRead / reportRaceOnWrite(lineNo, objName, fileName) ----
\* Race race(tid, lineNo, "read", ...); race.trace = getStack(tid);
\* up to the lock() of getStack.
reportRaceOnRead_getStack(t) ==
    /\ th[t].pc = "idle"
    /\ Cardinality(races) < MaxRaces
    /\ stackFrameLock = 0
    /\ stackFrameLock' = t
    /\ \E l \in LineNos :
          th' = [th EXCEPT ![t] = [Idle EXCEPT !.pc = "get_ref", !.op = "report",
                                               !.tid = t, !.lineNo = l,
                                               !.accessType = "read"]]
    /\ UNCHANGED <<callStack, races, racePrintLock>>
    /\ UNCHANGED vars

reportRaceOnWrite_getStack(t) ==
    /\ th[t].pc = "idle"
    /\ Cardinality(races) < MaxRaces
    /\ stackFrameLock = 0
    /\ stackFrameLock' = t
    /\ \E l \in LineNos :
          th' = [th EXCEPT ![t] = [Idle EXCEPT !.pc = "get_ref", !.op = "report",
                                               !.tid = t, !.lineNo = l,
                                               !.accessType = "write"]]
    /\ UNCHANGED <<callStack, races, racePrintLock>>
    /\ UNCHANGED vars

\* races.insert(race); printRaces();  (no lock is taken; an insertion that
\* overlaps another access of the set may be lost)
reportRace_insert(t) ==
    /\ th[t].pc = "insert"
    /\ LET race == Race(t, th[t].lineNo, th[t].accessType, th[t].trace)
       IN  races' \in {races \cup {race}} \cup
                      (IF Overlaps(t, [obj |-> "races", tid |-> 0, write |-> TRUE])
                       THEN {races} ELSE {})
    /\ th' = [th EXCEPT ![t] = [Idle EXCEPT !.pc = "iterate", !.op = "printRaces"]]
    /\ UNCHANGED <<callStack, stackFrameLock, racePrintLock>>
    /\ UNCHANGED vars

\* ---- printRaces() ----
\* std::string msg; entering the loop over races.
printRaces_enter(t) ==
    /\ th[t].pc = "idle"
    /\ th' = [th EXCEPT ![t] = [Idle EXCEPT !.pc = "iterate", !.op = "printRaces"]]
    /\ UNCHANGED <<callStack, races, stackFrameLock, racePrintLock>>
    /\ UNCHANGED vars

\* for (auto &race : races) race.createRaceMessage(msg);
printRaces_iterate(t) ==
    /\ th[t].pc = "iterate"
    /\ Goto(t, "print_lock")
    /\ UNCHANGED <<callStack, races, stackFrameLock, racePrintLock>>
    /\ UNCHANGED vars

\* racePrintLock.lock();
printRaces_lock(t) ==
    /\ th[t].pc = "print_lock"
    /\ racePrintLock = 0
    /\ racePrintLock' = t
    /\ Goto(t, "printf")
    /\ UNCHANGED <<callStack, races, stackFrameLock>>
    /\ UNCHANGED vars

\* printf(...); racePrintLock.unlock();
printRaces_printf(t) ==
    /\ th[t].pc = "printf"
    /\ racePrintLock' = 0
    /\ Return(t)
    /\ UNCHANGED <<callStack, races, stackFrameLock>>
    /\ UNCHANGED vars

NextRT ==
    \/ \E t \in Threads : pushFunction_lock(t)
    \/ \E t \in Threads : pushFunction_body(t)
    \/ \E t \in Threads : popFunction_lock(t)
    \/ \E t \in Threads : popFunction_ref(t)
    \/ \E t \in Threads : popFunction_test(t)
    \/ \E t \in Threads : popFunction_pop_back(t)
    \/ \E t \in Threads : getStack_lock(t)
    \/ \E t \in Threads : getStack_ref(t)
    \/ \E t \in Threads : getStack_copy(t)
    \/ \E t \in Threads : printStack_lock(t)
    \/ \E t \in Threads : printStack_ref(t)
    \/ \E t \in Threads : printStack_iterate(t)
    \/ \E t \in Threads : reportRaceOnRead_getStack(t)
    \/ \E t \in Threads : reportRaceOnWrite_getStack(t)
    \/ \E t \in Threads : reportRace_insert(t)
    \/ \E t \in Threads : printRaces_enter(t)
    \/ \E t \in Threads : printRaces_iterate(t)
    \/ \E t \in Threads : printRaces_lock(t)
    \/ \E t \in Threads : printRaces_printf(t)

\* The pass alone: no thread is inside the runtime.
Init ==
    /\ F \in SegFunctions \cup ExitFunctions \cup SingleFunctions \cup BulkFunctions
             \cup MixedFunctions \cup AtomicSegFunctions \cup {CtorFunction}
    /\ orig = F
    /\ ndebug \in (IF F.noCheck /\ F.sanitize THEN BOOLEAN ELSE {TRUE})
    /\ pc = "start"
    /\ bb = 1
    /\ ip = F.blocks[1][1].id
    /\ Local = <<>>
    /\ All = <<>>
    /\ AtomicAccesses = <<>>
    /\ MemIntrinCalls = <<>>
    /\ Res = FALSE
    /\ HasCalls = FALSE
    /\ k = 1
    /\ RtInit

Spec == Init /\ [][Next]_vars

\* The runtime alone: the pass is not running.
InitRT ==
    /\ F = CtorFunction
    /\ orig = F
    /\ ndebug = TRUE
    /\ pc = "done"
    /\ bb = 1
    /\ ip = 0
    /\ Local = <<>>
    /\ All = <<>>
    /\ AtomicAccesses = <<>>
    /\ MemIntrinCalls = <<>>
    /\ Res = FALSE
    /\ HasCalls = FALSE
    /\ k = 1
    /\ RtInit

SpecRT == InitRT /\ [][NextRT]_<<vars, rtvars>>

(***************************************************************************)
(* Vocabulary of the properties.  These definitions describe the original  *)
(* and the instrumented function; none of them is used by the actions.     *)
(***************************************************************************)
Processed == pc = "done" /\ orig.name # "tsan.module_ctor"
ScanDone == pc \notin {"start", "scan"} /\ orig.name # "tsan.module_ctor"

OrigIds == 1..Len(Items(orig))
OrigInst(i) == Items(orig)[i]

IsCallTo(it, fn) == it.kind = "rtcall" /\ it.fn = fn
CallsIn(blk, fn) == {p \in DOMAIN blk : IsCallTo(blk[p], fn)}
CallsTo(fn) == {i \in DOMAIN Items(F) : IsCallTo(Items(F)[i], fn)}

PlainLoad(I) == I.kind = "load" /\ ~I.atomic
PlainStore(I) == I.kind = "store" /\ ~I.atomic

\* The classes of the address classifier.
ExcludedAddress(a) == a.base \in {"as1", "pgo", "gcov"}
ConstantAddress(a) == a.base \in {"const", "vtload"}
NonEscapingStack(a) == a.base = "alloca"
EligibleMutable(a) ==
    ~ExcludedAddress(a) /\ ~ConstantAddress(a) /\ ~NonEscapingStack(a)

\* A call or invoke (the bulk-memory intrinsics are calls) ends a segment.
ClosesSegment(I) == I.kind \in {"call", "invoke", "memset", "memcpy", "memmove"}

OrigBlockOf(i) == BlockOf(orig, i)

\* Instructions i < j of the original function lie in one segment.
SameSegment(i, j) ==
    /\ OrigBlockOf(i) = OrigBlockOf(j)
    /\ \A m \in OrigIds : (i < m /\ m < j) => ~ClosesSegment(OrigInst(m))

Scheduled(i) == \E n \in DOMAIN All : All[n] = i

\* A block whose terminator leaves the function.
LeavesFunction(blk) == blk[Len(blk)].kind \in {"ret", "resume"}

\* Exactly one call of fn in the block, after every instruction of the
\* original function except the terminator it precedes.
OnceBeforeLeaving(blk, fn) ==
    /\ Cardinality(CallsIn(blk, fn)) = 1
    /\ \A p \in CallsIn(blk, fn) : \A q \in DOMAIN blk :
          q > p => (q = Len(blk) \/ blk[q].id = 0)

\* An instruction through which an exception may leave the function
\* without passing a block of the function.
EscapesByUnwinding(it) ==
    /\ it.kind \in {"call", "rtcall", "memset", "memcpy", "memmove"}
    /\ ~it.nothrow
    /\ it.unwind = ""

\* The block an invoke created by the pass unwinds to exists and resumes.
UnwindsToCleanup(it) ==
    it.unwind # "" =>
       \E b \in Blocks(F) :
          /\ F.blocks[b][1].kind = "landingpad"
          /\ F.blocks[b][1].fn = it.unwind
          /\ F.blocks[b][Len(F.blocks[b])].kind = "resume"

NReturns == Cardinality({b \in Blocks(orig) : orig.blocks[b][Len(orig.blocks[b])].kind = "ret"})
MUnwinds == Cardinality({b \in Blocks(F) : F.blocks[b][Len(F.blocks[b])].kind = "resume"})

SynthesizerRan == Processed /\ CallsTo("__tsan_func_entry") # {}

\* fn is called once on every path that leaves the function and nowhere else.
OnEveryExit(fn) ==
    /\ \A b \in Blocks(F) :
          IF LeavesFunction(F.blocks[b])
          THEN OnceBeforeLeaving(F.blocks[b], fn)
          ELSE CallsIn(F.blocks[b], fn) = {}
    /\ Cardinality(CallsTo(fn)) = NReturns + MUnwinds
    /\ \A i \in DOMAIN Items(F) :
          /\ (~orig.nounwind => ~EscapesByUnwinding(Items(F)[i]))
          /\ UnwindsToCleanup(Items(F)[i])

ShadowedInSegment(i) ==
    \E j \in OrigIds :
       /\ j > i
       /\ PlainStore(OrigInst(j))
       /\ SameSegment(i, j)
       /\ OrigInst(j).addr = OrigInst(i).addr

C2_LoadScheduledIffNotShadowed ==
    ScanDone =>
       \A i \in OrigIds :
          (PlainLoad(OrigInst(i)) /\ EligibleMutable(OrigInst(i).addr))
             => (Scheduled(i) <=> ~ShadowedInSegment(i))

C2_Witness ==
    /\ ScanDone
    /\ \E i \in OrigIds, j \in OrigIds :
          /\ j > i
          /\ PlainLoad(OrigInst(i))
          /\ EligibleMutable(OrigInst(i).addr)
          /\ PlainStore(OrigInst(j))
          /\ SameSegment(i, j)
          /\ OrigInst(j).addr.base = OrigInst(i).addr.base
          /\ OrigInst(j).addr # OrigInst(i).addr
          /\ Scheduled(i)

(***************************************************************************)
(* C3: the write set starts empty in every segment: a plain load of an     *)
(* eligible mutable address whose identical-operand stores all come after  *)
(* a call or in a later block is scheduled.                                *)
(***************************************************************************)
LaterStores(i) ==
    {j \in OrigIds : j > i /\ PlainStore(OrigInst(j))
                     /\ OrigInst(j).addr = OrigInst(i).addr}

C3_StoreBehindBoundaryDoesNotShadow ==
    ScanDone =>
       \A i \in OrigIds :
          (/\ PlainLoad(OrigInst(i))
           /\ EligibleMutable(OrigInst(i).addr)
           /\ LaterStores(i) # {}
           /\ \A j \in LaterStores(i) : ~SameSegment(i, j))
             => Scheduled(i)

C3_Witness ==
    /\ ScanDone
    /\ \E i \in OrigIds :
          /\ PlainLoad(OrigInst(i))
          /\ EligibleMutable(OrigInst(i).addr)
          /\ \E j \in LaterStores(i) :
                OrigBlockOf(j) = OrigBlockOf(i) /\ ~SameSegment(i, j)
          /\ Scheduled(i)

\* The probes of the race-detection runtime, by what they report.
PlainProbes ==
    {"__tsan_read", "__tsan_write", "__tsan_unaligned_read",
     "__tsan_unaligned_write", "__tsan_vptr_update", "__tsan_vptr_read"}
AtomicProbes ==
    {"__tsan_atomic_load", "__tsan_atomic_store", "__tsan_atomic_rmw",
     "__tsan_atomic_compare_exchange_val", "__tsan_atomic_thread_fence",
     "__tsan_atomic_signal_fence"}

ProbesOf(i, fns) ==
    {n \in DOMAIN Items(F) :
        /\ Items(F)[n].kind = "rtcall"
        /\ Items(F)[n].fn \in fns
        /\ Items(F)[n].covers = i}

SomeAccessInstrumented ==
    \E n \in DOMAIN Items(F) :
       /\ Items(F)[n].kind = "rtcall"
       /\ Items(F)[n].fn \in PlainProbes \cup AtomicProbes

ContainsCall ==
    \E i \in OrigIds :
       OrigInst(i).kind \in {"call", "invoke", "memset", "memcpy", "memmove"}

HasEntryProbe == CallsTo("__tsan_func_entry") # {}
HasExitProbe ==
    CallsTo("__tsan_func_exit") # {} \/ CallsTo("__tsan_main_func_exit") # {}

\* Exit probes come only with the entry probe, and with it whenever the
\* function has a way out.
ExitProbesMatchEntry ==
    /\ HasExitProbe => HasEntryProbe
    /\ (HasEntryProbe /\ NReturns + MUnwinds > 0) => HasExitProbe

(***************************************************************************)
(* C4, as stated: a processed function has the entry probe and its exit    *)
(* probes exactly when it is race-checked, or some access in it was        *)
(* instrumented, or it contains a call or an invoke.                       *)
(***************************************************************************)
C4_EntryExitIffSanitizedOrInstrumentedOrCalls ==
    Processed =>
       /\ HasEntryProbe <=> (orig.sanitize \/ SomeAccessInstrumented \/ ContainsCall)
       /\ ExitProbesMatchEntry

(***************************************************************************)
(* C4, amended: a processed function has the entry probe and its exit      *)
(* probes exactly when some access in it was instrumented or it contains   *)
(* a call or an invoke; being race-checked alone does not produce them.    *)
(***************************************************************************)
C4_EntryExitIffInstrumentedOrCalls ==
    Processed =>
       /\ HasEntryProbe <=> (SomeAccessInstrumented \/ ContainsCall)
       /\ ExitProbesMatchEntry
       /\ Cardinality(CallsTo("__tsan_func_entry")) <= 1

\* A race-checked function without calls and without an instrumented
\* access comes out of the pass without entry and exit probes.
C4_Witness ==
    /\ Processed
    /\ orig.sanitize
    /\ ~ContainsCall
    /\ ~SomeAccessInstrumented
    /\ \E i \in OrigIds : PlainLoad(OrigInst(i))
    /\ ~HasEntryProbe
    /\ ~HasExitProbe

(***************************************************************************)
(* C5: a processed function marked no-race-check that contains a call or   *)
(* an invoke has exactly one ignore-begin probe, in the entry block before *)
(* every instruction of the original body, and one ignore-end probe on     *)
(* every exit path, the unwind exits included, and nowhere else; a         *)
(* no-race-check function without calls has neither probe.                 *)
(***************************************************************************)
C5_IgnoreBracketOnEveryExit ==
    (Processed /\ orig.noCheck) =>
       IF ContainsCall
       THEN /\ Cardinality(CallsTo("__tsan_ignore_thread_begin")) = 1
            /\ \E p \in CallsIn(F.blocks[1], "__tsan_ignore_thread_begin") :
                  \A q \in DOMAIN F.blocks[1] : F.blocks[1][q].id > 0 => p < q
            /\ OnEveryExit("__tsan_ignore_thread_end")
       ELSE /\ CallsTo("__tsan_ignore_thread_begin") = {}
            /\ CallsTo("__tsan_ignore_thread_end") = {}

\* A no-race-check function with two returns and a call that may throw:
\* three ignore-end probes, one of them on the unwind exit.
C5_Witness ==
    /\ Processed
    /\ orig.noCheck
    /\ ContainsCall
    /\ NReturns = 2
    /\ MUnwinds = 1
    /\ Cardinality(CallsTo("__tsan_ignore_thread_end")) = 3

\* The atomic operations the runtime has a probe for.
SupportedSize(sz) == sz \in {1, 2, 4, 8, 16}
SupportedAtomic(I) ==
    \/ I.kind \in {"load", "store"} /\ I.atomic /\ I.scope = "cross" /\ SupportedSize(I.size)
    \/ /\ I.kind = "rmw"
       /\ I.op \in {"xchg", "add", "sub", "and", "or", "xor", "nand"}
       /\ SupportedSize(I.size)
    \/ I.kind = "cas" /\ SupportedSize(I.size)
    \/ I.kind = "fence"
ExpectedAtomicProbe(I) ==
    CASE I.kind = "load" -> "__tsan_atomic_load"
      [] I.kind = "store" -> "__tsan_atomic_store"
      [] I.kind = "rmw" -> "__tsan_atomic_rmw"
      [] I.kind = "cas" -> "__tsan_atomic_compare_exchange_val"
      [] I.kind = "fence" /\ I.scope = "single" -> "__tsan_atomic_signal_fence"
      [] OTHER -> "__tsan_atomic_thread_fence"

(***************************************************************************)
(* C6: in every processed function, race-checked or not, each supported    *)
(* atomic operation has exactly one atomic probe of its kind; a plain load *)
(* or store has an access probe only in a race-checked function.           *)
(***************************************************************************)
C6_AtomicsLoweredEverywhere ==
    Processed =>
       \A i \in OrigIds :
          /\ SupportedAtomic(OrigInst(i)) =>
                /\ Cardinality(ProbesOf(i, AtomicProbes)) = 1
                /\ ProbesOf(i, {ExpectedAtomicProbe(OrigInst(i))}) # {}
          /\ ProbesOf(i, PlainProbes) # {} =>
                /\ orig.sanitize
                /\ OrigInst(i).kind \in {"load", "store"}
                /\ ~OrigInst(i).atomic \/ OrigInst(i).scope = "single"

\* A function that is not race-checked has its read-modify-write lowered.
C6_Witness ==
    /\ Processed
    /\ ~orig.sanitize
    /\ \E i \in OrigIds :
          /\ OrigInst(i).kind = "rmw"
          /\ ProbesOf(i, {"__tsan_atomic_rmw"}) # {}

\* The C++ ABI values of the memory orderings.
FiveOrderings == {"monotonic", "acquire", "release", "acq_rel", "seq_cst"}
AbiOrdering(o) ==
    CASE o = "monotonic" -> 0
      [] o = "acquire" -> 2
      [] o = "release" -> 3
      [] o = "acq_rel" -> 4
      [] o = "seq_cst" -> 5
DecodeOrdering(n) == CHOOSE o \in FiveOrderings : AbiOrdering(o) = n
IsOrdArg(a) == a.k = "ord"
OrderingsOf(I) == IF I.kind = "cas" THEN <<I.ord, I.ford>> ELSE <<I.ord>>

(***************************************************************************)
(* C7: every ordering argument of an atomic probe is the C++ ABI value of  *)
(* the ordering of the operation it stands for (relaxed 0, acquire 2,      *)
(* release 3, acq_rel 4, seq_cst 5), never 1, and decoding it gives the    *)
(* ordering back; the five values are pairwise distinct.                   *)
(***************************************************************************)
C7_OrderingEncodingInvertible ==
    /\ \A n \in DOMAIN Items(F) :
          LET it == Items(F)[n]
          IN  (it.kind = "rtcall" /\ it.fn \in AtomicProbes) =>
                 LET ords == SelectSeq(it.args, IsOrdArg)
                     expected == OrderingsOf(OrigInst(it.covers))
                 IN  /\ Len(ords) = Len(expected)
                     /\ \A m \in DOMAIN ords :
                           /\ ords[m].n # 1
                           /\ expected[m] \in FiveOrderings =>
                                 /\ ords[m].n = AbiOrdering(expected[m])
                                 /\ DecodeOrdering(ords[m].n) = expected[m]
    /\ \A o1, o2 \in FiveOrderings :
          o1 # o2 => createOrdering(o1) # createOrdering(o2)

\* A compare-exchange with acq_rel success and acquire failure ordering
\* was lowered to a probe that carries 4 and 2.
C7_Witness ==
    \E n \in DOMAIN Items(F) :
       /\ IsCallTo(Items(F)[n], "__tsan_atomic_compare_exchange_val")
       /\ OrigInst(Items(F)[n].covers).ord = "acq_rel"
       /\ OrigInst(Items(F)[n].covers).ford = "acquire"
       /\ SelectSeq(Items(F)[n].args, IsOrdArg) = <<Arg("ord", 4), Arg("ord", 2)>>

\* What the code after the probe computes from the value C the probe
\* returned: the success flag and the old value in the original type.
RebuiltSuccess(it, C) == C.n = it.cmp
RebuiltOldVal(it, C) == IF it.isptr THEN CreateIntToPtr(C) ELSE C

(***************************************************************************)
(* C8: for every lowered compare-exchange and every value m in memory,     *)
(* with the probe returning m as an integer, the rebuilt pair is           *)
(* {old = m in the original type, success = (m = expected)}, which is what *)
(* the original instruction yields.                                        *)
(***************************************************************************)
C8_CompareExchangeResultRebuilt ==
    \A n \in DOMAIN Items(F) :
       LET it == Items(F)[n]
       IN  IsCallTo(it, "__tsan_atomic_compare_exchange_val") =>
              LET I == OrigInst(it.covers)
              IN  \A m \in Vals :
                     LET inMemory == TypedValue(I.isptr, m)
                         expected == TypedValue(I.isptr, I.cmp)
                         C == TypedValue(FALSE, m)
                     IN  /\ RebuiltOldVal(it, C) = inMemory
                         /\ RebuiltSuccess(it, C) = (inMemory = expected)

\* A pointer-typed compare-exchange whose expected and new values differ
\* has been lowered.
C8_Witness ==
    \E n \in DOMAIN Items(F) :
       /\ IsCallTo(Items(F)[n], "__tsan_atomic_compare_exchange_val")
       /\ OrigInst(Items(F)[n].covers).isptr
       /\ OrigInst(Items(F)[n].covers).cmp = 1
       /\ OrigInst(Items(F)[n].covers).val = 0
       /\ pc = "done"

IsBulk(it) == it.kind \in {"memset", "memcpy", "memmove"}
BulkIds(fn) == {Items(fn)[n].id : n \in {m \in DOMAIN Items(fn) : IsBulk(Items(fn)[m])}}

RECURSIVE LowerBulk(_, _)
LowerBulk(fn, S) ==
    IF S = {} THEN fn
    ELSE LET i == CHOOSE x \in S : TRUE
         IN  LowerBulk(instrumentMemIntrinsic(fn, i).F, S \ {i})
\* Running the bulk-memory lowering over everything it would pick up.
LoweredAgain(fn) == LowerBulk(fn, BulkIds(fn))

\* The call that replaced bulk operation i stands where i stood.
InPlaceOf(i, n) ==
    \E b \in Blocks(F) : \E p \in DOMAIN F.blocks[b] :
          /\ b = OrigBlockOf(i)
          /\ F.blocks[b][p] = Items(F)[n]
          /\ F.blocks[b][p].covers = i
          /\ \A q \in DOMAIN F.blocks[b] :
                F.blocks[b][q].id > 0 => (F.blocks[b][q].id < i <=> q < p)

\* Equality of operands by value, whatever their type.
SameAddress(a, b) == a.k = b.k /\ a.n = b.n
SameNumber(a, b) == a.n = b.n /\ a.hi = b.hi
\* A length as a number of the pointer width of the module.
ToPointerWidth(a) == IF orig.intptr = 32 THEN [a EXCEPT !.hi = 0] ELSE a

(***************************************************************************)
(* C9, as stated: in a processed function no bulk-memory intrinsic         *)
(* remains, and lowering again changes nothing.                            *)
(***************************************************************************)
C9_NoBulkIntrinsicRemains ==
    Processed =>
       /\ BulkIds(F) = {}
       /\ LoweredAgain(F) = F

(***************************************************************************)
(* C9, amended: in a processed race-checked function every memset, memcpy  *)
(* and memmove has been replaced, where it stood, by one call of the       *)
(* function of the same name with the same first three arguments (the      *)
(* length taken at the pointer width of the module), no intrinsic remains  *)
(* and lowering again changes nothing; a function that is not race-checked *)
(* keeps its intrinsics unchanged.                                         *)
(***************************************************************************)
C9_BulkLoweredInRaceCheckedFunctions ==
    Processed =>
       \A i \in OrigIds :
          IsBulk(OrigInst(i)) =>
             IF orig.sanitize
             THEN /\ BulkIds(F) = {}
                  /\ LoweredAgain(F) = F
                  /\ Cardinality(ProbesOf(i, {"memset", "memcpy", "memmove"})) = 1
                  /\ \A n \in ProbesOf(i, {"memset", "memcpy", "memmove"}) :
                        /\ Items(F)[n].fn = OrigInst(i).kind
                        /\ Len(Items(F)[n].args) = 3
                        /\ SameAddress(Items(F)[n].args[1], OrigInst(i).args[1])
                        /\ IF OrigInst(i).kind = "memset"
                           THEN SameNumber(Items(F)[n].args[2], OrigInst(i).args[2])
                           ELSE SameAddress(Items(F)[n].args[2], OrigInst(i).args[2])
                        /\ SameNumber(Items(F)[n].args[3],
                                      ToPointerWidth(OrigInst(i).args[3]))
                        /\ InPlaceOf(i, n)
             ELSE /\ \E n \in DOMAIN Items(F) : Items(F)[n] = OrigInst(i)
                  /\ ProbesOf(i, {"memset", "memcpy", "memmove"}) = {}

\* A race-checked function whose memcpy with an i64 length became a call
\* of memcpy in a module with 32-bit pointers, and no intrinsic is left.
C9_Witness ==
    /\ Processed
    /\ orig.sanitize
    /\ orig.intptr = 32
    /\ \E i \in OrigIds :
          /\ OrigInst(i).kind = "memcpy"
          /\ OrigInst(i).args[3].bits = 64
          /\ ProbesOf(i, {"memcpy"}) # {}
    /\ BulkIds(F) = {}

\* The place of an item in program order: its own number, or the number
\* of the instruction the probe was created for.
Key(it) == IF it.id > 0 THEN it.id ELSE it.covers
BeforeProbes == PlainProbes \cup {"__tsan_atomic_load"}
ReplacingProbes ==
    (AtomicProbes \ {"__tsan_atomic_load"}) \cup {"memset", "memcpy", "memmove"}
Present(i) == \E n \in DOMAIN Items(F) : Items(F)[n].id = i

(***************************************************************************)
(* C10: although instructions are collected in reverse order, the probes   *)
(* stand in program order: in every block the items are ordered by the     *)
(* instruction they belong to; the probe of a plain access or an atomic    *)
(* load stands directly before the instruction it covers; the probe of an  *)
(* atomic store, read-modify-write, fence, compare-exchange or bulk        *)
(* operation stands in the place of its operation, which is gone.          *)
(***************************************************************************)
C10_ProbesInProgramOrder ==
    /\ \A b \in Blocks(F) : \A p, q \in DOMAIN F.blocks[b] :
          p < q =>
             /\ Key(F.blocks[b][p]) <= Key(F.blocks[b][q])
             /\ (Key(F.blocks[b][p]) = Key(F.blocks[b][q]) /\ Key(F.blocks[b][p]) # 0)
                   => F.blocks[b][p].id = 0
    /\ \A b \in Blocks(F) : \A p \in DOMAIN F.blocks[b] :
          LET it == F.blocks[b][p]
          IN  /\ (it.kind = "rtcall" /\ it.fn \in BeforeProbes) =>
                    /\ p < Len(F.blocks[b])
                    /\ F.blocks[b][p + 1].id = it.covers
              /\ (it.kind = "rtcall" /\ it.fn \in ReplacingProbes) => ~Present(it.covers)

\* Two accesses were collected in reverse order and both carry a probe.
C10_Witness ==
    /\ Processed
    /\ Len(All) >= 2
    /\ All[1] > All[2]
    /\ ProbesOf(All[1], PlainProbes) # {}
    /\ ProbesOf(All[2], PlainProbes) # {}

(***************************************************************************)
(* C11: no two threads are ever inside accesses of the race-record set, of *)
(* the thread-to-call-stack map or of one per-thread stack vector at the   *)
(* same time with at least one of the two accesses mutating it.            *)
(***************************************************************************)
C11_NoConflictingAccess ==
    \A t \in Threads : \A a \in Accessing(t) : ~Overlaps(t, a)

Top(stack) == stack[Len(stack)]
BelowTop(stack) == SubSeq(stack, 1, Len(stack) - 1)
TopIs(stack, f) == stack # <<>> /\ Top(stack) = f
InPopFunction(t) == th[t].pc \in {"pop_ref", "pop_test", "pop_back"}

MemoryOps ==
    SelectSeq(Items(orig),
              LAMBDA I : I.kind \in {"load", "store", "rmw", "cas", "fence"})
RuntimeCalls == {n \in DOMAIN Items(F) : Items(F)[n].kind = "rtcall"}

\* No call, and nothing but a store followed by a load of the same stack
\* address that does not escape.
StoreThenLoadOfOwnStack ==
    /\ ~ContainsCall
    /\ \A i \in OrigIds : OrigInst(i).kind \in {"load", "store", "ret", "br"}
    /\ Len(MemoryOps) = 2
    /\ PlainStore(MemoryOps[1])
    /\ PlainLoad(MemoryOps[2])
    /\ MemoryOps[1].addr = MemoryOps[2].addr
    /\ NonEscapingStack(MemoryOps[1].addr)

(***************************************************************************)
(* C12: a processed function without calls whose only memory operations    *)
(* are a store followed by a load of the same non-escaping stack address   *)
(* holds no call into the runtime and is the function it was.              *)
(***************************************************************************)
C12_StackOnlyFunctionUntouched ==
    (Processed /\ StoreThenLoadOfOwnStack) =>
       /\ RuntimeCalls = {}
       /\ F = orig

AlignedProbes == {"__tsan_read", "__tsan_write"}
UnalignedProbes == {"__tsan_unaligned_read", "__tsan_unaligned_write"}
WriteProbes == {"__tsan_write", "__tsan_unaligned_write"}
SizedProbes == AlignedProbes \cup UnalignedProbes

\* A plain access that is scheduled, is no dispatch-table access and has a
\* supported size gets one read/write probe of its size.
SizedProbeFor(i) ==
    /\ Cardinality(ProbesOf(i, SizedProbes)) = 1
    /\ \A n \in ProbesOf(i, SizedProbes) :
          /\ Items(F)[n].size = OrigInst(i).size
          /\ Items(F)[n].fn \in WriteProbes <=> OrigInst(i).kind = "store"

ScheduledPlainAccess(i) ==
    /\ orig.sanitize
    /\ Scheduled(i)
    /\ ~OrigInst(i).vtable
    /\ OrigInst(i).addr.base # "swifterror"
    /\ SupportedSize(OrigInst(i).size)

(***************************************************************************)
(* C13, as stated: the probe of a scheduled plain access of size S with    *)
(* declared alignment A is the aligned one exactly when A is 0 or a        *)
(* multiple of S, and the unaligned one otherwise.                         *)
(***************************************************************************)
C13_AlignedIffNaturalAlignment ==
    Processed =>
       \A i \in OrigIds :
          ScheduledPlainAccess(i) =>
             /\ SizedProbeFor(i)
             /\ \A n \in ProbesOf(i, SizedProbes) :
                   Items(F)[n].fn \in AlignedProbes <=>
                      (OrigInst(i).align = 0 \/ OrigInst(i).align % OrigInst(i).size = 0)

(***************************************************************************)
(* C13, amended: the probe is the aligned one exactly when A is 0, A is a  *)
(* multiple of S, or A is at least 8, and the unaligned one otherwise; a   *)
(* 16-byte access with alignment 8 takes the aligned probe.                *)
(***************************************************************************)
C13_AlignedIffNaturalOrEightAligned ==
    Processed =>
       \A i \in OrigIds :
          ScheduledPlainAccess(i) =>
             /\ SizedProbeFor(i)
             /\ \A n \in ProbesOf(i, SizedProbes) :
                   Items(F)[n].fn \in AlignedProbes <=>
                      \/ OrigInst(i).align = 0
                      \/ OrigInst(i).align % OrigInst(i).size = 0
                      \/ OrigInst(i).align >= 8

\* A 16-byte load with alignment 8 carries the aligned probe of size 16.
C13_Witness ==
    /\ Processed
    /\ \E i \in OrigIds :
          /\ ScheduledPlainAccess(i)
          /\ OrigInst(i).size = 16
          /\ OrigInst(i).align = 8
          /\ \E n \in ProbesOf(i, {"__tsan_read"}) : Items(F)[n].size = 16

MemoryInstruction(I) == I.kind \in {"load", "store", "rmw", "cas"}
RaceProbes == PlainProbes \cup AtomicProbes
Log2(sz) == CHOOSE e \in 0..4 : 2 ^ e = sz

\* The instruction has the probe it would have in any function: the atomic
\* probe of its kind, or the read/write probe if it was scheduled.
LoweredAsUsual(i) ==
    /\ SupportedAtomic(OrigInst(i)) =>
          ProbesOf(i, {ExpectedAtomicProbe(OrigInst(i))}) # {}
    /\ (ScheduledPlainAccess(i) /\ ~SupportedAtomic(OrigInst(i))) => SizedProbeFor(i)

BothAttributes == orig.sanitize /\ orig.noCheck

(***************************************************************************)
(* C15: the processing of a function that is both race-checked and         *)
(* suppressed at run time never completes, and when it is aborted nothing  *)
(* has been inserted into the function.                                    *)
(***************************************************************************)
C15_BothAttributesAbortBeforeInstrumenting ==
    BothAttributes =>
       /\ pc # "done"
       /\ pc = "aborted" => (RuntimeCalls = {} /\ F = orig)

FunctionIdProbes == {"__tsan_func_entry", "__tsan_func_exit", "__tsan_main_func_exit"}
IgnoreProbes == {"__tsan_ignore_thread_begin", "__tsan_ignore_thread_end"}
ArgType(a) == IF a.k = "funcname" THEN "i8*" ELSE a.k
ArgTypes(it) == [n \in DOMAIN it.args |-> ArgType(it.args[n])]

(***************************************************************************)
(* C16: every lifecycle probe call in the function has the arguments its   *)
(* declaration names, in number and order: one function id for func_entry, *)
(* func_exit and main_func_exit, declared and passed; none for             *)
(* ignore_thread_begin and ignore_thread_end.                              *)
(***************************************************************************)
C16_LifecycleCallsMatchDeclarations ==
    \A n \in DOMAIN Items(F) :
       LET it == Items(F)[n]
       IN  (it.kind = "rtcall" /\ it.fn \in FunctionIdProbes \cup IgnoreProbes) =>
              /\ ArgTypes(it) = DeclaredParams(it.fn)
              /\ it.fn \in FunctionIdProbes =>
                    (ArgTypes(it) = <<"i8*">> /\ DeclaredParams(it.fn) = <<"i8*">>)
              /\ it.fn \in IgnoreProbes =>
                    (ArgTypes(it) = <<>> /\ DeclaredParams(it.fn) = <<>>)

\* An atomic operation of the IR, whatever the pass makes of it.
AtomicOperation(I) ==
    \/ I.kind \in {"rmw", "cas", "fence"}
    \/ I.kind \in {"load", "store"} /\ I.atomic

AtomicBetween(i, j) ==
    \E m \in OrigIds : i < m /\ m < j /\ AtomicOperation(OrigInst(m))

CallBetween(i, j) ==
    \E m \in OrigIds : i < m /\ m < j /\ ClosesSegment(OrigInst(m))

\* A plain load of an eligible address, an atomic operation after it and a
\* plain store through the identical operand after that, in one block.
LoadAtomicStore(i, j) ==
    /\ i < j
    /\ PlainLoad(OrigInst(i))
    /\ EligibleMutable(OrigInst(i).addr)
    /\ PlainStore(OrigInst(j))
    /\ OrigInst(j).addr = OrigInst(i).addr
    /\ OrigBlockOf(i) = OrigBlockOf(j)
    /\ AtomicBetween(i, j)

(***************************************************************************)
(* C18: atomic operations do not close a segment.  Of a plain load, a      *)
(* later atomic operation and a still later plain store through the        *)
(* identical address operand in one block, the load is dropped from        *)
(* AllLoadsAndStores when no call or invoke lies between load and store,   *)
(* and it is kept when a call or invoke lies between the load and every    *)
(* plain store through that operand later in the block.                    *)
(***************************************************************************)
C18_AtomicsDoNotCloseSegment ==
    ScanDone =>
       \A i \in OrigIds, j \in OrigIds :
          LoadAtomicStore(i, j) =>
             /\ ~CallBetween(i, j) => ~Scheduled(i)
             /\ (\A l \in LaterStores(i) :
                    OrigBlockOf(l) = OrigBlockOf(i) => CallBetween(i, l))
                   => Scheduled(i)

C18_Witness ==
    /\ ScanDone
    /\ \E i \in OrigIds, j \in OrigIds :
          /\ LoadAtomicStore(i, j)
          /\ ~CallBetween(i, j)
          /\ \E m \in OrigIds :
                /\ i < m /\ m < j
                /\ OrigInst(m).kind = "fence"
          /\ ~Scheduled(i)
          /\ Scheduled(j)

\* The values a call passes for its source-line parameter.
LineArgsOf(it) == {it.args[n].n : n \in {m \in DOMAIN it.args : it.args[m].k = "line"}}

(***************************************************************************)
(* C19: the source-line argument of every plain access probe (read, write, *)
(* their unaligned forms, vptr_update, vptr_read) is the source line of    *)
(* the instruction it covers, for lines of 256 and above too.              *)
(***************************************************************************)
C19_LineArgumentIsSourceLine ==
    \A n \in DOMAIN Items(F) :
       LET it == Items(F)[n]
       IN  (it.kind = "rtcall" /\ it.fn \in PlainProbes) =>
              LineArgsOf(it) = {OrigInst(it.covers).line}

====
